---------------------------- MODULE Spec2Model ----------------------------
(***************************************************************************)
(* Model of scripts/extract_domains.py and scripts/generate_config.py:     *)
(* the domain validator, the five format extractors, the dispatcher, the   *)
(* aggregator, the in-list deduplication, the two renderers and main.      *)
(*                                                                         *)
(* Texts are TLA+ strings.  A character is a string of length 1.  The      *)
(* modelled alphabet is printable ASCII without the backquote, plus        *)
(* "\t" and "\n".                                                          *)
(***************************************************************************)
EXTENDS Integers, Sequences, FiniteSets, TLC

VARIABLES
    pc,               \* position of the running function
    content,          \* text handed to an extractor (extract_domains.py)
    file_url,         \* source identifier handed to the dispatcher
    called,           \* which function of extract_domains.py was called
    domains,          \* the set that function returned
    config_file,      \* config/config.json: NoFile or its "sources" object
    config,           \* main: the loaded configuration
    cn_sources,       \* main: config['sources']['cn_domains']
    foreign_sources,  \* main: config['sources']['foreign_domains']
    custom_cn,        \* config/custom_cn_domains.txt: NoFile or its text
    custom_foreign,   \* config/custom_foreign_domains.txt: NoFile or its text
    fetched,          \* retrieval outcome of every URL requested so far
    idx,              \* process_sources: index of the next source
    all_domains,      \* process_sources: the accumulator
    cn_domains,       \* main: the domestic set
    foreign_domains,  \* main: the foreign set
    cn_dns,           \* main: domestic DNS server list
    foreign_dns,      \* main: foreign DNS server list
    now,              \* the clock read by datetime.datetime.now()
    whitelist_config, \* main: text returned by generate_whitelist_config
    blacklist_config, \* main: text returned by generate_blacklist_config
    dist,             \* the files written under dist/
    renders           \* texts returned by the renderer calls made so far

vars == <<pc, content, file_url, called, domains, config_file, config,
          cn_sources, foreign_sources, custom_cn, custom_foreign, fetched,
          idx, all_domains, cn_domains, foreign_domains, cn_dns, foreign_dns,
          now, whitelist_config, blacklist_config, dist, renders>>

---------------------------------------------------------------------------
(* Characters and Python's str methods.                                    *)

Lower == "abcdefghijklmnopqrstuvwxyz"
Upper == "ABCDEFGHIJKLMNOPQRSTUVWXYZ"

CharsOf(s) == {SubSeq(s, i, i) : i \in 1..Len(s)}

LowerSet == CharsOf(Lower)
UpperSet == CharsOf(Upper)
AlnumSet == LowerSet \cup UpperSet \cup CharsOf("0123456789")

\* [-a-zA-Z0-9] of the regular expressions (lines 36-41); [a-zA-Z0-9] is
\* AlnumSet
LabelChar == AlnumSet \cup {"-"}

\* characters str.strip() removes and str.splitlines() splits at
Whitespace == {" ", "\t", "\n", "\r", "\f"}
LineBreaks == {"\n", "\r", "\f"}

\* s[i-1:j] of Python: positions outside the string are left out
Slice(s, i, j) ==
    LET lo == IF i < 1 THEN 1 ELSE i
        hi == IF j > Len(s) THEN Len(s) ELSE j
    IN IF lo > hi THEN "" ELSE SubSeq(s, lo, hi)

\* the character at position i, "" outside the string
At(s, i) == Slice(s, i, i)

From(s, i) == Slice(s, i, Len(s))

StartsWith(s, p) == Len(p) <= Len(s) /\ Slice(s, 1, Len(p)) = p

EndsWith(s, p) == Len(p) <= Len(s) /\ Slice(s, Len(s) - Len(p) + 1, Len(s)) = p

\* p in s
Contains(s, p) == \E i \in 1..(Len(s) - Len(p) + 1) : Slice(s, i, i + Len(p) - 1) = p

\* s.find(p) + 1: the first position of p in s from position i on, 0 when absent
RECURSIVE FindFrom(_, _, _)
FindFrom(s, p, i) ==
    IF i + Len(p) - 1 > Len(s) THEN 0
    ELSE IF Slice(s, i, i + Len(p) - 1) = p THEN i
    ELSE FindFrom(s, p, i + 1)

Find(s, p) == FindFrom(s, p, 1)

\* the first position from i on whose character is in cs, 0 when there is none
RECURSIVE FindAny(_, _, _)
FindAny(s, cs, i) ==
    IF i > Len(s) THEN 0
    ELSE IF At(s, i) \in cs THEN i
    ELSE FindAny(s, cs, i + 1)

\* the last position in i..Len(s) of the run of characters of cs starting at i
\* (i - 1 when s[i] is not in cs)
RECURSIVE RunEnd(_, _, _)
RunEnd(s, cs, i) ==
    IF i <= Len(s) /\ At(s, i) \in cs THEN RunEnd(s, cs, i + 1) ELSE i - 1

RECURSIVE LastNot(_, _, _)
LastNot(s, cs, j) ==
    IF j >= 1 /\ At(s, j) \in cs THEN LastNot(s, cs, j - 1) ELSE j

\* str.strip()
Strip(s) == Slice(s, RunEnd(s, Whitespace, 1) + 1, LastNot(s, Whitespace, Len(s)))

UpperTable == [c \in LowerSet |-> At(Upper, Find(Lower, c))]
LowerTable == [c \in UpperSet |-> At(Lower, Find(Upper, c))]

\* str.upper()
RECURSIVE ToUpper(_)
ToUpper(s) ==
    IF s = "" THEN ""
    ELSE (IF At(s, 1) \in LowerSet THEN UpperTable[At(s, 1)] ELSE At(s, 1))
             \o ToUpper(From(s, 2))

\* str.lower()
RECURSIVE ToLower(_)
ToLower(s) ==
    IF s = "" THEN ""
    ELSE (IF At(s, 1) \in UpperSet THEN LowerTable[At(s, 1)] ELSE At(s, 1))
             \o ToLower(From(s, 2))

\* str.splitlines(), as the sequence of lines.  "\r\n" yields an extra empty
\* line here; every caller strips each line and skips the empty ones.
RECURSIVE SplitLines(_)
SplitLines(s) ==
    IF s = "" THEN <<>>
    ELSE LET k == FindAny(s, LineBreaks, 1) IN
         IF k = 0 THEN <<s>>
         ELSE <<Slice(s, 1, k - 1)>> \o SplitLines(From(s, k + 1))

\* the stripped lines of a text: [line.strip() for line in content.splitlines()]
StrippedLines(s) == LET ls == SplitLines(s) IN [i \in 1..Len(ls) |-> Strip(ls[i])]

\* file_url.split('/')[-1]
RECURSIVE LastSegment(_)
LastSegment(s) ==
    LET k == Find(s, "/") IN IF k = 0 THEN s ELSE LastSegment(From(s, k + 1))

\* sep.join(parts)
RECURSIVE Join(_, _)
Join(parts, sep) ==
    IF parts = <<>> THEN ""
    ELSE IF Len(parts) = 1 THEN parts[1]
    ELSE parts[1] \o sep \o Join(Tail(parts), sep)


---------------------------------------------------------------------------
(* The regular expressions of extract_domains.py, lines 36-41.  Every       *)
(* matcher returns the text of group 1, or "" when the pattern does not     *)
(* match (group 1 is never empty).                                          *)

\* (\.[a-zA-Z0-9][-a-zA-Z0-9]*)+ continued greedily from a label ending at e,
\* n groups matched so far: the last position matched, 0 when n stays 0
RECURSIVE MoreLabels(_, _, _)
MoreLabels(s, e, n) ==
    IF At(s, e + 1) = "." /\ At(s, e + 2) \in AlnumSet
    THEN MoreLabels(s, RunEnd(s, LabelChar, e + 3), n + 1)
    ELSE IF n >= 1 THEN e ELSE 0

\* [a-zA-Z0-9][-a-zA-Z0-9]*(\.[a-zA-Z0-9][-a-zA-Z0-9]*)+ matched at position i:
\* the last position of the match, 0 when there is none
DomainShapeEnd(s, i) ==
    IF At(s, i) \in AlnumSet
    THEN MoreLabels(s, RunEnd(s, LabelChar, i + 1), 0)
    ELSE 0

\* DOMAIN_PATTERN.match(s) is not None; $ also matches before a final "\n"
DOMAIN_PATTERN(s) ==
    LET e == DomainShapeEnd(s, 1) IN
    /\ e > 0
    /\ \/ e = Len(s)
       \/ e = Len(s) - 1 /\ At(s, Len(s)) = "\n"

\* DNSMASQ_PATTERN.match(line): server=/([^/]+)/
DNSMASQ_PATTERN(line) ==
    IF StartsWith(line, "server=/")
    THEN LET k == FindAny(line, {"/"}, 9) IN
         IF k > 9 THEN Slice(line, 9, k - 1) ELSE ""
    ELSE ""

\* ADBLOCK_PATTERN.match(line): ^\|\|(<shape>)\^
ADBLOCK_PATTERN(line) ==
    IF StartsWith(line, "||")
    THEN LET e == DomainShapeEnd(line, 3) IN
         IF e > 0 /\ At(line, e + 1) = "^" THEN Slice(line, 3, e) ELSE ""
    ELSE ""

\* URL_PATTERN matched at position i: https?://(<shape>)
UrlAt(s, i) ==
    LET j == IF Slice(s, i, i + 6) = "http://" THEN i + 7
             ELSE IF Slice(s, i, i + 7) = "https://" THEN i + 8
             ELSE 0
        e == IF j = 0 THEN 0 ELSE DomainShapeEnd(s, j)
    IN IF e > 0 THEN Slice(s, j, e) ELSE ""

\* URL_PATTERN.search(s): the leftmost match
RECURSIVE UrlFrom(_, _)
UrlFrom(s, i) ==
    IF i > Len(s) THEN ""
    ELSE LET g == UrlAt(s, i) IN IF g # "" THEN g ELSE UrlFrom(s, i + 1)

URL_PATTERN(s) == UrlFrom(s, 1)

\* the group of .*(?:KW|kw)[,:][ ]*(<shape>) when the shape starts at j
ClashGroup(s, j, e) == IF e > 0 THEN Slice(s, j, e) ELSE ""

\* .*(?:KW|kw)[,:][ ]*(<shape>) matched from the start of s with the keyword
\* (kw or its lower-case form lkw) at position k
ClashAt(s, kw, lkw, k) ==
    IF /\ Slice(s, k, k + Len(kw) - 1) \in {kw, lkw}
       /\ At(s, k + Len(kw)) \in {",", ":"}
       /\ ~Contains(Slice(s, 1, k - 1), "\n")
    THEN ClashGroup(s, RunEnd(s, {" "}, k + Len(kw) + 1) + 1,
                    DomainShapeEnd(s, RunEnd(s, {" "}, k + Len(kw) + 1) + 1))
    ELSE ""

\* the greedy .* takes the last position at which the rest matches
RECURSIVE ClashFrom(_, _, _, _)
ClashFrom(s, kw, lkw, k) ==
    IF k < 1 THEN ""
    ELSE IF ClashAt(s, kw, lkw, k) # "" THEN ClashAt(s, kw, lkw, k)
    ELSE ClashFrom(s, kw, lkw, k - 1)

CLASH_DOMAIN_PATTERN(s) == ClashFrom(s, "DOMAIN", "domain", Len(s))

CLASH_DOMAIN_SUFFIX_PATTERN(s) == ClashFrom(s, "DOMAIN-SUFFIX", "domain-suffix", Len(s))

---------------------------------------------------------------------------
(* extract_domains.py: the validator and the extractors.                    *)

is_valid_domain(domain) ==
    IF domain = "" \/ Len(domain) > 253 THEN FALSE
    ELSE IF StartsWith(domain, ".") \/ EndsWith(domain, ".") THEN FALSE
    ELSE IF Contains(domain, "..") THEN FALSE
    ELSE DOMAIN_PATTERN(domain)

\* if is_valid_domain(domain): domains.add(domain)
AddIfValid(domain) == IF is_valid_domain(domain) THEN {domain} ELSE {}

\* parts = re.split(r'[,:]', text, 1); domain = parts[1].strip()
KeywordValue(text) ==
    LET k == FindAny(text, {",", ":"}, 1) IN
    IF k = 0 THEN {} ELSE AddIfValid(Strip(From(text, k + 1)))

\* a rule chain that goes on to the later rules when the text after the
\* keyword's separator is not a domain
RuleDomainsFallThrough(text) ==
    LET up == ToUpper(text)
        keyword == \/ Contains(up, "DOMAIN,") \/ Contains(up, "DOMAIN:")
                   \/ Contains(up, "DOMAIN-SUFFIX,") \/ Contains(up, "DOMAIN-SUFFIX:")
    IN
    IF keyword /\ KeywordValue(text) # {} THEN KeywordValue(text)
    ELSE IF is_valid_domain(text) THEN {text}
    ELSE IF CLASH_DOMAIN_PATTERN(text) # "" THEN AddIfValid(CLASH_DOMAIN_PATTERN(text))
    ELSE IF CLASH_DOMAIN_SUFFIX_PATTERN(text) # ""
         THEN AddIfValid(CLASH_DOMAIN_SUFFIX_PATTERN(text))
    ELSE IF URL_PATTERN(text) # "" THEN AddIfValid(URL_PATTERN(text))
    ELSE {}

\* the rule chain applied to a stripped line (lines 83-126) and to a list
\* item (lines 138-181, 187-230, 250-293)
RuleDomains(text) ==
    LET up == ToUpper(text) IN
    IF Contains(up, "DOMAIN,") \/ Contains(up, "DOMAIN:") THEN KeywordValue(text)
    ELSE IF Contains(up, "DOMAIN-SUFFIX,") \/ Contains(up, "DOMAIN-SUFFIX:")
         THEN KeywordValue(text)
    ELSE IF is_valid_domain(text) THEN {text}
    ELSE IF CLASH_DOMAIN_PATTERN(text) # "" THEN AddIfValid(CLASH_DOMAIN_PATTERN(text))
    ELSE IF CLASH_DOMAIN_SUFFIX_PATTERN(text) # ""
         THEN AddIfValid(CLASH_DOMAIN_SUFFIX_PATTERN(text))
    ELSE IF URL_PATTERN(text) # "" THEN AddIfValid(URL_PATTERN(text))
    ELSE {}

\* the stripped lines of a text, as the set a loop over them visits
LineSet(text) ==
    LET ls == StrippedLines(text) IN {ls[i] : i \in 1..Len(ls)}

\* a dnsmasq extractor that adds the text between the slashes unchecked
DnsmasqLineUnchecked(line) ==
    IF line # "" /\ ~StartsWith(line, "#")
    THEN IF DNSMASQ_PATTERN(line) # "" THEN {DNSMASQ_PATTERN(line)}
         ELSE IF is_valid_domain(line) THEN {line}
         ELSE {}
    ELSE {}

\* lines 305-315: one stripped line
DnsmasqLine(line) ==
    IF line # "" /\ ~StartsWith(line, "#")
    THEN IF DNSMASQ_PATTERN(line) # "" THEN AddIfValid(DNSMASQ_PATTERN(line))
         ELSE IF is_valid_domain(line) THEN {line}
         ELSE {}
    ELSE {}

extract_domains_from_dnsmasq(text) == UNION {DnsmasqLine(line) : line \in LineSet(text)}

AdblockLine(line) ==
    IF line # "" /\ ~StartsWith(line, "!") /\ ~StartsWith(line, "#")
    THEN IF ADBLOCK_PATTERN(line) # "" THEN AddIfValid(ADBLOCK_PATTERN(line))
         ELSE IF is_valid_domain(line) THEN {line}
         ELSE IF URL_PATTERN(line) # "" THEN AddIfValid(URL_PATTERN(line))
         ELSE {}
    ELSE {}

extract_domains_from_adblock(text) == UNION {AdblockLine(line) : line \in LineSet(text)}

PlainTextLine(line) ==
    IF line # "" /\ ~StartsWith(line, "#")
    THEN IF is_valid_domain(line) THEN {line}
         ELSE IF URL_PATTERN(line) # "" THEN AddIfValid(URL_PATTERN(line))
         ELSE {}
    ELSE {}

extract_domains_from_plain_text(text) == UNION {PlainTextLine(line) : line \in LineSet(text)}

\* the line pass of extract_domains_from_yaml (lines 76-126)
YamlLine(line) ==
    IF line = "" \/ StartsWith(line, "#") THEN {} ELSE RuleDomains(line)

YamlLinePass(text) == UNION {YamlLine(line) : line \in LineSet(text)}

---------------------------------------------------------------------------
(* base64.b64decode(content).decode('utf-8', errors='ignore'), line 347.    *)
(* The decoded text is kept in the modelled alphabet: a code point at which *)
(* str.splitlines() splits becomes "\n", any other code point str.strip()   *)
(* removes becomes " ", "\t" stays, and every code point that is neither    *)
(* printable ASCII nor one of these becomes "~" (the extractor tells it     *)
(* apart from no character outside the ones it tests for).                  *)

B64Alphabet == "ABCDEFGHIJKLMNOPQRSTUVWXYZabcdefghijklmnopqrstuvwxyz0123456789+/"

\* table_a2b_base64: the 6-bit value of a character of the alphabet, -1 for
\* any other character
B64Value(c) ==
    IF \E k \in 1..64 : At(B64Alphabet, k) = c
    THEN (CHOOSE k \in 1..64 : At(B64Alphabet, k) = c) - 1
    ELSE -1

\* binascii.Error
B64Error == <<-1>>

\* the characters binascii.a2b_base64 (not strict) does not skip
B64Significant(c) == c = "=" \/ B64Value(c) >= 0

B64Data(c) == c # "="

\* binascii.a2b_base64 (not strict): characters outside the alphabet are
\* skipped; a pad character ends the input when it completes the quad (the
\* first pad after three characters of a quad, the second after two);
\* characters of an unfinished quad left at the end raise binascii.Error.
\* The loop over the characters is written position by position.

\* quad_pos when the i-th significant character is read
B64Quad(sig, i) == Cardinality({j \in 1..(i - 1) : sig[j] # "="}) % 4

\* the pad characters that would end the input
B64Ends(sig) ==
    {i \in 1..Len(sig) :
        /\ sig[i] = "="
        /\ \/ B64Quad(sig, i) = 3
           \/ B64Quad(sig, i) = 2 /\ i > 1 /\ sig[i - 1] = "="}

B64First(ends) == CHOOSE i \in ends : \A j \in ends : i <= j

\* byte k of the output for the 6-bit values v
B64Byte(v, k, g) ==
    CASE (k - 1) % 3 = 0 -> v[g + 1] * 4 + v[g + 2] \div 16
      [] (k - 1) % 3 = 1 -> (v[g + 2] % 16) * 16 + v[g + 3] \div 4
      [] (k - 1) % 3 = 2 -> (v[g + 3] % 4) * 64 + v[g + 4]

B64Bytes(v, m) ==
    [k \in 1..(3 * (m \div 4) + (IF m % 4 = 3 THEN 2 ELSE IF m % 4 = 2 THEN 1 ELSE 0))
        |-> B64Byte(v, k, 4 * ((k - 1) \div 3))]

B64Values(data) == [k \in 1..Len(data) |-> B64Value(data[k])]

B64Finish(data, ended) ==
    IF ~ended /\ Len(data) % 4 # 0 THEN B64Error
    ELSE B64Bytes(B64Values(data), Len(data))

B64Stop(sig, ends) ==
    IF ends = {} THEN B64Finish(SelectSeq(sig, B64Data), FALSE)
    ELSE B64Finish(SelectSeq(SubSeq(sig, 1, B64First(ends) - 1), B64Data), TRUE)

B64Scan(sig) == B64Stop(sig, B64Ends(sig))

b64decode(s) == B64Scan(SelectSeq([i \in 1..Len(s) |-> At(s, i)], B64Significant))

Printable == " !\"#$%&'()*+,-./0123456789:;<=>?@ABCDEFGHIJKLMNOPQRSTUVWXYZ[\\]^_~abcdefghijklmnopqrstuvwxyz{|}~"

\* the character of an ASCII byte
AsciiChar(b) ==
    IF b = 9 THEN "\t"
    ELSE IF b \in {10, 11, 12, 13, 28, 29, 30} THEN "\n"
    ELSE IF b = 31 THEN " "
    ELSE IF b >= 32 /\ b <= 126 THEN At(Printable, b - 31)
    ELSE "~"

\* the character of a code point above ASCII
WideChar(cp) ==
    IF cp \in {133, 8232, 8233} THEN "\n"
    ELSE IF cp \in {160, 5760, 8239, 8287, 12288} \/ (cp >= 8192 /\ cp <= 8202) THEN " "
    ELSE "~"

IsCont(b) == b >= 128 /\ b <= 191

ByteAt(bs, i) == IF i <= Len(bs) THEN bs[i] ELSE -1

\* bytes.decode('utf-8', errors='ignore') from position i on: an ill-formed
\* sequence is dropped up to the byte that makes it ill-formed
RECURSIVE Utf8From(_, _)
Utf8From(bs, i) ==
    IF i > Len(bs) THEN ""
    ELSE LET b1 == bs[i]
             b2 == ByteAt(bs, i + 1)
             b3 == ByteAt(bs, i + 2)
             b4 == ByteAt(bs, i + 3)
             ok2 == CASE b1 = 224 -> b2 >= 160 /\ b2 <= 191
                      [] b1 = 237 -> b2 >= 128 /\ b2 <= 159
                      [] b1 = 240 -> b2 >= 144 /\ b2 <= 191
                      [] b1 = 244 -> b2 >= 128 /\ b2 <= 143
                      [] OTHER -> IsCont(b2)
         IN IF b1 < 128 THEN AsciiChar(b1) \o Utf8From(bs, i + 1)
            ELSE IF b1 >= 194 /\ b1 <= 223
                 THEN IF IsCont(b2)
                      THEN WideChar((b1 - 192) * 64 + (b2 - 128)) \o Utf8From(bs, i + 2)
                      ELSE Utf8From(bs, i + 1)
            ELSE IF b1 >= 224 /\ b1 <= 239
                 THEN IF ~ok2 THEN Utf8From(bs, i + 1)
                      ELSE IF ~IsCont(b3) THEN Utf8From(bs, i + 2)
                      ELSE WideChar((b1 - 224) * 4096 + (b2 - 128) * 64 + (b3 - 128))
                               \o Utf8From(bs, i + 3)
            ELSE IF b1 >= 240 /\ b1 <= 244
                 THEN IF ~ok2 THEN Utf8From(bs, i + 1)
                      ELSE IF ~IsCont(b3) THEN Utf8From(bs, i + 2)
                      ELSE IF ~IsCont(b4) THEN Utf8From(bs, i + 3)
                      ELSE "~" \o Utf8From(bs, i + 4)
            ELSE Utf8From(bs, i + 1)

utf8_decode_ignore(bs) == Utf8From(bs, 1)

---------------------------------------------------------------------------
(* urllib.parse.urlparse(url).netloc, used at line 365.                     *)

RECURSIVE RemoveChars(_, _)
RemoveChars(s, cs) ==
    IF s = "" THEN ""
    ELSE (IF At(s, 1) \in cs THEN "" ELSE At(s, 1)) \o RemoveChars(From(s, 2), cs)

\* the network location of what follows the scheme: the text after "//" up to
\* the first of / ? #
NetlocUpTo(rest, d) == Slice(rest, 3, IF d = 0 THEN Len(rest) ELSE d - 1)

NetlocOf(rest) ==
    IF StartsWith(rest, "//") THEN NetlocUpTo(rest, FindAny(rest, {"/", "?", "#"}, 3))
    ELSE ""

\* a leading scheme (up to the ":" at position i) is split off
SplitScheme(u, i) ==
    IF i > 1 /\ RunEnd(u, AlnumSet \cup {"+", "-", "."}, 1) >= i - 1 THEN NetlocOf(From(u, i + 1))
    ELSE NetlocOf(u)

Unwrapped(u) == SplitScheme(u, Find(u, ":"))

\* urlsplit: tabs and line breaks are removed, a leading scheme is split off,
\* and the network location is what follows "//" up to the first of / ? #
netloc(url) == Unwrapped(RemoveChars(url, {"\t", "\r", "\n"}))

Unbalanced(n) == Contains(n, "[") # Contains(n, "]")

\* urlsplit raises ValueError("Invalid IPv6 URL"); line 368 swallows it
netloc_raises(url) == Unbalanced(netloc(url))

---------------------------------------------------------------------------
(* extract_domains_from_gfwlist, lines 342-394.                             *)

\* lines 351-380: one stripped line of the decoded text
GfwlistLine(line) ==
    IF line = "" \/ StartsWith(line, "!") \/ StartsWith(line, "[") \/ StartsWith(line, "#")
    THEN {}
    ELSE IF StartsWith(line, "||") /\ Contains(line, "^")
         THEN AddIfValid(Slice(line, 3, Find(line, "^") - 1))
    ELSE IF StartsWith(line, "|http")
         THEN IF netloc_raises(From(line, 2)) THEN {} ELSE AddIfValid(netloc(From(line, 2)))
    ELSE IF ~Contains(line, "/") /\ Contains(line, ".") /\ ~StartsWith(line, ".")
         THEN AddIfValid(line)
    ELSE IF URL_PATTERN(line) # "" THEN AddIfValid(URL_PATTERN(line))
    ELSE {}

\* lines 386-390: one stripped line of the raw text after a failed decode
GfwlistFallbackLine(line) ==
    IF line # "" /\ ~StartsWith(line, "#") /\ ~StartsWith(line, "!")
    THEN AddIfValid(line)
    ELSE {}

\* lines 345-390: the decoded text is parsed, the raw text after a failure
GfwlistDecoded(text, bytes) ==
    IF bytes = B64Error
    THEN UNION {GfwlistFallbackLine(line) : line \in LineSet(text)}
    ELSE UNION {GfwlistLine(line) : line \in LineSet(utf8_decode_ignore(bytes))}

extract_domains_from_gfwlist(text) == GfwlistDecoded(text, b64decode(text))

---------------------------------------------------------------------------
(* yaml.safe_load(content), line 130, on the block-style subset the feeds   *)
(* use: whole-line comments, top-level keys "name:" and the entries         *)
(* "  - scalar" of a block sequence, where the scalar is a plain scalar.    *)
(* A text of these lines loads as a mapping from keys to lists (None for a  *)
(* key without entries) or, without keys, as a list.  Every other text of   *)
(* the modelled inputs either raises yaml.YAMLError or loads as a value     *)
(* that holds no list (a string, None): both leave the structured pass      *)
(* without a domain.                                                        *)

YamlWords == {"yes", "Yes", "YES", "no", "No", "NO", "true", "True", "TRUE",
              "false", "False", "FALSE", "on", "On", "ON", "off", "Off", "OFF",
              "null", "Null", "NULL"}

\* a line YAML ignores: blank or a comment
YamlIgnored(line) == Strip(line) = "" \/ StartsWith(Strip(line), "#")

\* "name:" at column 1
YamlKeyLine(line) ==
    /\ Len(line) >= 2
    /\ At(line, 1) \in LowerSet \cup UpperSet
    /\ RunEnd(line, AlnumSet \cup {"_", "-"}, 1) = Len(line) - 1
    /\ At(line, Len(line)) = ":"

\* a plain scalar of the subset: it starts with a letter and holds no ": ",
\* no " #", no tab and no final ":" or blank
YamlPlain(t) ==
    /\ At(t, 1) \in LowerSet \cup UpperSet
    /\ ~Contains(t, ": ") /\ ~Contains(t, " #") /\ ~Contains(t, "\t")
    /\ ~EndsWith(t, ":") /\ ~EndsWith(t, " ")

\* "  - scalar"
YamlItemLine(line) == StartsWith(line, "  - ") /\ YamlPlain(From(line, 5))

\* the value of an entry: its text, and whether it loads as a str (the words
\* of YamlWords load as a bool or None)
YamlItem(line) ==
    LET t == From(line, 5) IN [text |-> t, str |-> t \notin YamlWords]

isinstance_str(item) == item.str

YamlSignificant(text) == SelectSeq(SplitLines(text), LAMBDA l : ~YamlIgnored(l))

\* the entries that follow the key at line k, up to the next key
RECURSIVE YamlEntries(_, _)
YamlEntries(ls, k) ==
    IF k + 1 <= Len(ls) /\ YamlItemLine(ls[k + 1])
    THEN <<YamlItem(ls[k + 1])>> \o YamlEntries(ls, k + 1)
    ELSE <<>>

YamlKeyOf(ls, k) == Slice(ls[k], 1, Len(ls[k]) - 1)

\* a key given twice keeps its last value
YamlLast(ls, keyLines, name) ==
    CHOOSE k \in keyLines :
        /\ YamlKeyOf(ls, k) = name
        /\ \A j \in keyLines : YamlKeyOf(ls, j) = name => j <= k

YamlDict(ls, keyLines, names) ==
    [kind |-> "dict",
     keys |-> names,
     list |-> [name \in names |-> YamlEntries(ls, YamlLast(ls, keyLines, name))]]

YamlMapping(ls, keyLines) ==
    IF 1 \in keyLines /\ \A k \in 1..Len(ls) : k \in keyLines \/ YamlItemLine(ls[k])
    THEN YamlDict(ls, keyLines, {YamlKeyOf(ls, k) : k \in keyLines})
    ELSE [kind |-> "other"]

\* the value loaded from the significant lines
YamlLoad(ls) ==
    IF Len(ls) = 0 THEN [kind |-> "other"]
    ELSE IF StartsWith(Strip(ls[1]), "|") THEN [kind |-> "error"]
    ELSE IF \A k \in 1..Len(ls) : YamlItemLine(ls[k])
         THEN [kind |-> "list", list |-> [k \in 1..Len(ls) |-> YamlItem(ls[k])]]
    ELSE YamlMapping(ls, {k \in 1..Len(ls) : YamlKeyLine(ls[k])})

\* the loaded value: [kind |-> "dict", keys, list] with list[key] = <<>> for
\* a key without entries (it loads as None), [kind |-> "list", list],
\* [kind |-> "error"] for yaml.YAMLError, [kind |-> "other"]
safe_load(text) == YamlLoad(YamlSignificant(text))

\* for item in items: if isinstance(item, str): <the rule chain>
RuleItems(items) ==
    UNION {IF isinstance_str(items[i]) THEN RuleDomains(items[i].text) ELSE {}
           : i \in 1..Len(items)}

\* for item in items: if isinstance(item, str) and is_valid_domain(item): add
BareItems(items) ==
    UNION {IF isinstance_str(items[i]) THEN AddIfValid(items[i].text) ELSE {}
           : i \in 1..Len(items)}

\* isinstance(data[key], list) and the list is not empty
HasList(data, key) == key \in data.keys /\ data.list[key] # <<>>

\* lines 133-298 for the loaded value
StructuredDomains(data) ==
    IF data.kind = "error" THEN {}
    ELSE IF data.kind = "dict"
         THEN IF HasList(data, "payload") THEN RuleItems(data.list["payload"])
              ELSE IF HasList(data, "rules") THEN RuleItems(data.list["rules"])
              ELSE IF HasList(data, "domains") THEN BareItems(data.list["domains"])
              ELSE UNION {BareItems(data.list[k]) : k \in data.keys}
    ELSE IF data.kind = "list" THEN RuleItems(data.list)
    ELSE {}

\* the structured pass (lines 129-298); both except clauses only log
YamlStructuredPass(text) == StructuredDomains(safe_load(text))

\* an extractor whose except clause starts again from an empty set
YamlResetOnError(text) ==
    IF safe_load(text).kind = "error" THEN {}
    ELSE YamlLinePass(text) \cup YamlStructuredPass(text)

extract_domains_from_yaml(text) == YamlLinePass(text) \cup YamlStructuredPass(text)

---------------------------------------------------------------------------
(* extract_domains_from_file, lines 413-478.                                *)

\* file_name = file_url.split('/')[-1].lower()
file_name_of(url) == ToLower(LastSegment(url))

\* lines 472-476: plain text only when nothing was found
OrPlainText(found, text) ==
    IF found = {} THEN extract_domains_from_plain_text(text) ELSE found

\* a chain that stops at the first format that yields something
FallbackChainFirstHit(text) ==
    IF extract_domains_from_yaml(text) # {} THEN extract_domains_from_yaml(text)
    ELSE IF extract_domains_from_dnsmasq(text) # {} THEN extract_domains_from_dnsmasq(text)
    ELSE IF extract_domains_from_adblock(text) # {} THEN extract_domains_from_adblock(text)
    ELSE OrPlainText(extract_domains_from_gfwlist(text), text)

\* a chain that takes the text as plain text whatever the other formats yield
FallbackChainAlwaysPlain(text) ==
    extract_domains_from_yaml(text) \cup extract_domains_from_dnsmasq(text)
        \cup extract_domains_from_adblock(text) \cup extract_domains_from_gfwlist(text)
        \cup extract_domains_from_plain_text(text)

\* lines 440-478: every format is tried; plain text only when nothing was found
FallbackChain(text) ==
    OrPlainText(extract_domains_from_yaml(text) \cup extract_domains_from_dnsmasq(text)
                    \cup extract_domains_from_adblock(text)
                    \cup extract_domains_from_gfwlist(text),
                text)

\* a dispatcher that looks for ".list" before it looks at the endings
DispatchListFirst(text, file_name) ==
    IF Contains(file_name, ".list") THEN OrPlainText(extract_domains_from_yaml(text), text)
    ELSE IF EndsWith(file_name, ".yaml") \/ EndsWith(file_name, ".yml")
    THEN extract_domains_from_yaml(text)
    ELSE IF EndsWith(file_name, ".conf") THEN extract_domains_from_dnsmasq(text)
    ELSE IF file_name = "gfwlist.txt" THEN extract_domains_from_gfwlist(text)
    ELSE FallbackChain(text)

\* lines 417-478 for the lower-cased file name
Dispatch(text, file_name) ==
    IF EndsWith(file_name, ".yaml") \/ EndsWith(file_name, ".yml")
    THEN extract_domains_from_yaml(text)
    ELSE IF EndsWith(file_name, ".conf") THEN extract_domains_from_dnsmasq(text)
    ELSE IF file_name = "gfwlist.txt" THEN extract_domains_from_gfwlist(text)
    ELSE IF Contains(file_name, ".list")
         THEN OrPlainText(extract_domains_from_yaml(text), text)
    ELSE FallbackChain(text)

extract_domains_from_file(text, url) == Dispatch(text, file_name_of(url))

\* read_custom_domains, lines 505-518, for an existing file with this text
CustomLine(line) ==
    IF line # "" /\ ~StartsWith(line, "#") THEN AddIfValid(line) ELSE {}

\* for line in f: a text file is read line by line, split at "\n" and "\r"
RECURSIVE FileLines(_)
FileLines(s) ==
    IF s = "" THEN <<>>
    ELSE LET k == FindAny(s, {"\n", "\r"}, 1) IN
         IF k = 0 THEN <<s>>
         ELSE <<Slice(s, 1, k - 1)>> \o FileLines(From(s, k + 1))

read_custom_domains(text) ==
    LET ls == FileLines(text) IN UNION {CustomLine(Strip(ls[i])) : i \in 1..Len(ls)}

---------------------------------------------------------------------------
(* generate_config.py: the renderers, lines 83-129.  The Chinese header     *)
(* lines are written here in ASCII.                                         *)

\* the code point order of the characters, for sorted()
OrdOf ==
    LET table == "\t\n\f\r !\"#$%&'()*+,-./0123456789:;<=>?@ABCDEFGHIJKLMNOPQRSTUVWXYZ[\\]^_abcdefghijklmnopqrstuvwxyz{|}~"
    IN [c \in CharsOf(table) |-> Find(table, c)]

\* ord(c), as the rank of the character
Ord(c) == OrdOf[c]

\* a < b for Python strings
RECURSIVE StrLess(_, _)
StrLess(a, b) ==
    IF b = "" THEN FALSE
    ELSE IF a = "" THEN TRUE
    ELSE IF At(a, 1) = At(b, 1) THEN StrLess(From(a, 2), From(b, 2))
    ELSE Ord(At(a, 1)) < Ord(At(b, 1))

\* sorted(S) for a set of strings
RECURSIVE sorted(_)
sorted(S) ==
    IF S = {} THEN <<>>
    ELSE LET m == CHOOSE x \in S : \A y \in S : x = y \/ StrLess(x, y)
         IN <<m>> \o sorted(S \ {m})

\* the clock advances in steps of 1/TicksPerSecond seconds
TicksPerSecond == 2

Pad2(n) == IF n < 10 THEN "0" \o ToString(n) ELSE ToString(n)

\* datetime.datetime.now().strftime('%Y-%m-%d %H:%M:%S') at clock value t
strftime(t) ==
    LET sec == t \div TicksPerSecond IN
    "2025-01-01 00:" \o Pad2((sec \div 60) % 60) \o ":" \o Pad2(sec % 60)

\* the directives in descending order of the domains
DirectivesDescending(domain_set, dns) ==
    LET ds == sorted(domain_set) IN
    [i \in 1..Len(ds) |-> "[/" \o ds[Len(ds) + 1 - i] \o "/]" \o Join(dns, " ")]

\* f"[/{domain}/]{dns_list}" for domain in sorted(domain_set)
Directives(domain_set, dns) ==
    LET ds == sorted(domain_set) IN
    [i \in 1..Len(ds) |-> "[/" \o ds[i] \o "/]" \o Join(dns, " ")]

\* generate_whitelist_config, lines 83-105, called at clock value t
generate_whitelist_config(cn, foreign, cndns, foreigndns, t) ==
    Join(<<"# AdGuard Home DNS split config - whitelist mode",
           "# generated at " \o strftime(t),
           "# whitelist mode: domestic domains use domestic DNS, all others foreign DNS",
           "",
           "# default upstream DNS servers (foreign)">>
         \o foreigndns
         \o <<"",
              "# domestic domain rules (" \o ToString(Cardinality(cn)) \o " domains)">>
         \o Directives(cn, cndns),
         "\n")

\* generate_blacklist_config, lines 107-129, called at clock value t
generate_blacklist_config(cn, foreign, cndns, foreigndns, t) ==
    Join(<<"# AdGuard Home DNS split config - blacklist mode",
           "# generated at " \o strftime(t),
           "# blacklist mode: foreign domains use foreign DNS, all others domestic DNS",
           "",
           "# default upstream DNS servers (domestic)">>
         \o cndns
         \o <<"",
              "# foreign domain rules (" \o ToString(Cardinality(foreign)) \o " domains)">>
         \o Directives(foreign, foreigndns),
         "\n")

\* a deduplication that also drops the first occurrence of a domain it has
\* seen, and so loses the first domain in sorted order
RemoveDuplicatesLosingOne(ds) ==
    {d \in ds : \E e \in ds : StrLess(e, d)}

\* remove_duplicates_in_list, lines 142-148: set(domains)
remove_duplicates_in_list(ds) == {d \in ds : TRUE}

\* the text main writes to dist/cn_domains.txt and dist/foreign_domains.txt
\* (lines 207-213)
DomainListFile(domain_set) ==
    LET ds == sorted(domain_set) IN Join([i \in 1..Len(ds) |-> ds[i] \o "\n"], "")

---------------------------------------------------------------------------
(* The aggregator: download_file (extract_domains.py, lines 43-58) and     *)
(* process_sources (generate_config.py, lines 65-81).                       *)

\* the sources of the runs and the text each serves when it can be retrieved
YamlUrl == "https://h/cn/ChinaDomain.yaml"
ConfUrl == "https://h/cn/accelerated-domains.china.conf"
GfwUrl == "https://h/gfwlist/gfwlist.txt"
MiscUrl == "https://h/misc/hosts.txt"

Urls == {YamlUrl, ConfUrl, GfwUrl, MiscUrl}

\* GfwUrl serves the Base64 text of
\* "[AutoProxy 0.2.9]\n! note\n||c.org^\n|http://d.net/x\n.e.io\nb.com\n"
Remote(url) ==
    CASE url = YamlUrl -> "payload:\n  - DOMAIN-SUFFIX,a.com\n  - b.com\n  - notadomain!!"
      [] url = ConfUrl -> "server=/b.com/114.114.114.114\nserver=/-bad.org/1.1.1.1\n# x.org\nc.org"
      [] url = GfwUrl -> "W0F1dG9Qcm94eSAwLjIuOV0KISBub3RlCnx8Yy5vcmdeCnxodHRwOi8vZC5uZXQveAouZS5pbwpiLmNvbQo="
      [] url = MiscUrl -> "! ads\n||ads.e.com^\n||-x.com^\nserver=/f.cn/1.1.1.1\nserver=/g..cn/1.1.1.1\n0.0.0.0 h.com"

\* download_file: the text, or "" when the retrieval fails (lines 53-58)
download_file(url, outcome) == IF outcome = "ok" THEN Remote(url) ELSE ""

MaxSources == 2

\* the source lists of a configuration: up to MaxSources sources, each once
SourceLists ==
    {srcs \in UNION {[1..n -> Urls] : n \in 0..MaxSources} :
        \A i, j \in 1..Len(srcs) : srcs[i] = srcs[j] => i = j}

NoFile == [exists |-> FALSE, text |-> ""]

CustomFiles == {NoFile, [exists |-> TRUE, text |-> "# custom\nx.cn\n-bad-\n b.com \n"]}

\* extract_domains_from_file(content, source) for the text of each source
Extracted == [url \in Urls |-> extract_domains_from_file(Remote(url), url)]

\* read_custom_domains(custom_file) for each custom file
CustomDomains == [custom \in CustomFiles |-> read_custom_domains(custom.text)]

\* a loop that gives up what it gathered when a source cannot be retrieved
SourceStepDiscarding(all, url, outcome) ==
    IF download_file(url, outcome) # "" THEN all \cup Extracted[url] ELSE {}

\* a loop that keeps only what the last retrieved source yields
SourceStepOverwriting(all, url, outcome) ==
    IF download_file(url, outcome) # "" THEN Extracted[url] ELSE all

\* one round of the loop of process_sources (lines 69-74)
SourceStep(all, url, outcome) ==
    IF download_file(url, outcome) # "" THEN all \cup Extracted[url] ELSE all

\* lines 76-81: the custom file, when it exists, is merged and the set returned
CustomStep(all, custom) ==
    IF custom.exists THEN all \cup CustomDomains[custom] ELSE all

\* lines 156-157
default_cn_dns == <<"https://doh.pub/dns-query", "https://dns.alidns.com/dns-query">>
default_foreign_dns == <<"https://1.1.1.1/dns-query", "https://8.8.8.8/dns-query">>

NoConfig == [exists |-> FALSE, cn_domains |-> <<>>, foreign_domains |-> <<>>]

\* values of the variables a specification does not use
extractIdle == content = "" /\ file_url = "" /\ called = "" /\ domains = {}
pipelineIdle ==
    /\ cn_sources = <<>> /\ foreign_sources = <<>>
    /\ custom_cn = NoFile /\ custom_foreign = NoFile
    /\ fetched = [u \in Urls |-> "unknown"]
    /\ idx = 1 /\ all_domains = {}
    /\ whitelist_config = "" /\ blacklist_config = "" /\ dist = <<>>

extractVars == <<content, file_url, called, domains>>
mainVars == <<config_file, config>>
sourceVars == <<cn_sources, foreign_sources, custom_cn, custom_foreign>>
aggVars == <<fetched, idx, all_domains>>
setVars == <<cn_domains, foreign_domains>>
dnsVars == <<cn_dns, foreign_dns>>
outVars == <<whitelist_config, blacklist_config, dist>>

---------------------------------------------------------------------------
(* Spec: the steps of main from line 165 on (process_sources for each      *)
(* category, remove_duplicates_in_list, the two renderers, the files        *)
(* written), for DNS server lists already bound.                            *)

Init ==
    /\ pc = "cn_sources"
    /\ cn_sources \in SourceLists
    /\ foreign_sources \in SourceLists
    /\ custom_cn \in CustomFiles
    /\ custom_foreign \in CustomFiles
    /\ fetched = [u \in Urls |-> "unknown"]
    /\ idx = 1
    /\ all_domains = {}
    /\ cn_domains = {}
    /\ foreign_domains = {}
    /\ cn_dns = default_cn_dns
    /\ foreign_dns = default_foreign_dns
    /\ now = 0
    /\ whitelist_config = ""
    /\ blacklist_config = ""
    /\ dist = <<>>
    /\ extractIdle /\ config_file = NoConfig /\ config = NoConfig /\ renders = <<>>

\* the list process_sources is working through
CurrentSources == IF pc = "cn_sources" THEN cn_sources ELSE foreign_sources

\* generate_config.process_sources, lines 69-74: one source
ProcessSource ==
    /\ pc \in {"cn_sources", "foreign_sources"}
    /\ idx <= Len(CurrentSources)
    \* the retrieval of a URL succeeds or fails; the outcome is kept for the run
    /\ \E o \in (IF fetched[CurrentSources[idx]] = "unknown" THEN {"ok", "fail"}
                ELSE {fetched[CurrentSources[idx]]}) :
          /\ fetched' = [fetched EXCEPT ![CurrentSources[idx]] = o]
          /\ content' = download_file(CurrentSources[idx], o)
          /\ domains' = IF content' # "" THEN Extracted[CurrentSources[idx]] ELSE domains
          /\ all_domains' = SourceStep(all_domains, CurrentSources[idx], o)
    /\ idx' = idx + 1
    /\ UNCHANGED <<pc, file_url, called, mainVars, sourceVars, setVars, dnsVars, now, outVars,
                   renders>>

\* lines 76-81 and line 171: the domestic call returns
ReturnCn ==
    /\ pc = "cn_sources"
    /\ idx > Len(cn_sources)
    /\ cn_domains' = CustomStep(all_domains, custom_cn)
    /\ pc' = "foreign_sources"
    /\ idx' = 1
    /\ all_domains' = {}
    /\ content' = ""
    /\ domains' = {}
    /\ UNCHANGED <<file_url, called, mainVars, sourceVars, fetched, foreign_domains, dnsVars, now,
                   outVars, renders>>

\* lines 76-81 and line 174: the foreign call returns
ReturnForeign ==
    /\ pc = "foreign_sources"
    /\ idx > Len(foreign_sources)
    /\ foreign_domains' = CustomStep(all_domains, custom_foreign)
    /\ pc' = "dedup"
    /\ idx' = 1
    /\ all_domains' = {}
    /\ content' = ""
    /\ domains' = {}
    /\ UNCHANGED <<file_url, called, mainVars, sourceVars, fetched, cn_domains, dnsVars, now,
                   outVars, renders>>

\* main, lines 176-183
RemoveDuplicates ==
    /\ pc = "dedup"
    /\ cn_domains' = remove_duplicates_in_list(cn_domains)
    /\ foreign_domains' = remove_duplicates_in_list(foreign_domains)
    /\ pc' = "whitelist"
    /\ UNCHANGED <<extractVars, mainVars, sourceVars, aggVars, dnsVars, now, outVars, renders>>

\* main, lines 190-191
GenerateWhitelist ==
    /\ pc = "whitelist"
    /\ whitelist_config' =
           generate_whitelist_config(cn_domains, foreign_domains, cn_dns, foreign_dns, now)
    /\ pc' = "blacklist"
    /\ UNCHANGED <<extractVars, mainVars, sourceVars, aggVars, setVars, dnsVars, now,
                   blacklist_config, dist, renders>>

\* main, lines 193-194
GenerateBlacklist ==
    /\ pc = "blacklist"
    /\ blacklist_config' =
           generate_blacklist_config(cn_domains, foreign_domains, cn_dns, foreign_dns, now)
    /\ pc' = "save"
    /\ UNCHANGED <<extractVars, mainVars, sourceVars, aggVars, setVars, dnsVars, now,
                   whitelist_config, dist, renders>>

\* main, lines 196-217
SaveFiles ==
    /\ pc = "save"
    /\ dist' = [whitelist_mode |-> whitelist_config,
                blacklist_mode |-> blacklist_config,
                cn_domains |-> DomainListFile(cn_domains),
                foreign_domains |-> DomainListFile(foreign_domains)]
    /\ pc' = "done"
    /\ UNCHANGED <<extractVars, mainVars, sourceVars, aggVars, setVars, dnsVars, now,
                   whitelist_config, blacklist_config, renders>>

Next ==
    \/ ProcessSource
    \/ ReturnCn
    \/ ReturnForeign
    \/ RemoveDuplicates
    \/ GenerateWhitelist
    \/ GenerateBlacklist
    \/ SaveFiles

Spec == Init /\ [][Next]_vars

---------------------------------------------------------------------------
(* SpecMain: main of generate_config.py from its first line (150-160).      *)

\* the attributes of module extract_domains: what it imports (lines 14-23),
\* assigns (lines 33-41) and defines (lines 43-518)
extract_domains_names ==
    {"os", "re", "sys", "yaml", "base64", "json", "urllib", "logging", "List", "Set",
     "Dict", "Any", "URLError", "logger",
     "DOMAIN_PATTERN", "CLASH_DOMAIN_PATTERN", "CLASH_DOMAIN_SUFFIX_PATTERN",
     "DNSMASQ_PATTERN", "ADBLOCK_PATTERN", "URL_PATTERN", "download_file",
     "is_valid_domain", "extract_domains_from_yaml", "extract_domains_from_dnsmasq",
     "extract_domains_from_adblock", "extract_domains_from_gfwlist",
     "extract_domains_from_plain_text", "extract_domains_from_file", "process_sources",
     "save_domains_to_file", "read_custom_domains"}

\* load_config, lines 37-52: the configuration written when there is none
DefaultConfig ==
    [exists |-> TRUE,
     cn_domains |->
        <<"https://raw.githubusercontent.com/ACL4SSR/ACL4SSR/master/Clash/Providers/ChinaDomain.yaml",
          "https://raw.githubusercontent.com/ACL4SSR/ACL4SSR/master/Clash/Providers/ChinaMedia.yaml",
          "https://raw.githubusercontent.com/blackmatrix7/ios_rule_script/master/rule/Clash/ChinaMax/ChinaMax_Domain.yaml",
          "https://raw.githubusercontent.com/felixonmars/dnsmasq-china-list/master/accelerated-domains.china.conf">>,
     foreign_domains |->
        <<"https://raw.githubusercontent.com/blackmatrix7/ios_rule_script/master/rule/Clash/Proxy/Proxy_Domain.yaml",
          "https://raw.githubusercontent.com/ACL4SSR/ACL4SSR/master/Clash/Providers/ProxyGFWlist.yaml",
          "https://raw.githubusercontent.com/ACL4SSR/ACL4SSR/master/Clash/Providers/ProxyMedia.yaml",
          "https://raw.githubusercontent.com/gfwlist/gfwlist/master/gfwlist.txt">>]

ConfigFiles ==
    {NoConfig} \cup
    {[exists |-> TRUE, cn_domains |-> c, foreign_domains |-> f] :
        c \in SourceLists, f \in SourceLists}

InitMain ==
    /\ pc = "load_config"
    /\ config_file \in ConfigFiles
    /\ config = NoConfig
    /\ cn_dns = <<>> /\ foreign_dns = <<>>
    /\ cn_domains = {} /\ foreign_domains = {}
    /\ now = 0
    /\ pipelineIdle /\ extractIdle /\ renders = <<>>

\* load_config (lines 31-63), called at line 153
LoadConfig ==
    /\ pc = "load_config"
    /\ config_file' = IF config_file.exists THEN config_file ELSE DefaultConfig
    /\ config' = config_file'
    /\ pc' = "read_dns_servers"
    /\ UNCHANGED <<extractVars, sourceVars, aggVars, setVars, dnsVars, now, outVars, renders>>

\* lines 159-160: the attribute read_dns_servers of module extract_domains is
\* looked up; a name the module does not define raises AttributeError, which
\* nothing catches
ReadDnsServers ==
    /\ pc = "read_dns_servers"
    /\ pc' = IF "read_dns_servers" \in extract_domains_names THEN "cn_sources" ELSE "aborted"
    /\ UNCHANGED <<extractVars, mainVars, sourceVars, aggVars, setVars, dnsVars, now, outVars,
                   renders>>

NextMain == LoadConfig \/ ReadDnsServers

SpecMain == InitMain /\ [][NextMain]_vars

---------------------------------------------------------------------------
(* SpecExtract: one call of a function of extract_domains.py on a text.     *)

CorpusLines ==
    <<"payload:",
      "  - DOMAIN-SUFFIX,a.com",
      "  - DOMAIN-SUFFIX,e.com,Proxy",
      "  - b.cn",
      "server=/c.org/114.114.114.114",
      "server=/-bad.com/1.1.1.1",
      "||ads.e.com^",
      "||a.com^DOMAIN,http://d.com",
      "!DOMAIN,http://c.com/x",
      "fHxnLmNvbV4KfGh0dHA6Ly9oLm5ldC8K",
      "# h.com">>

MaxLines == 2

\* the texts of 1..MaxLines lines
Texts ==
    {Join([i \in 1..Len(ls) |-> CorpusLines[ls[i]]], "\n") :
        ls \in UNION {[1..m -> 1..Len(CorpusLines)] : m \in 1..MaxLines}}

FileUrls ==
    {"https://h/p/A.yaml", "b.YML", "https://h/c.conf", "https://h/x/gfwlist.txt",
     "x.list", "A.LIST.CONF", "https://h/other.txt", "https://h/d.yaml/raw"}

InitExtract ==
    /\ pc = "extract"
    /\ content \in Texts
    /\ file_url = ""
    /\ called = ""
    /\ domains = {}
    /\ cn_dns = <<>> /\ foreign_dns = <<>>
    /\ cn_domains = {} /\ foreign_domains = {}
    /\ now = 0
    /\ pipelineIdle /\ config_file = NoConfig /\ config = NoConfig /\ renders = <<>>

restOfExtract ==
    <<pc, content, mainVars, sourceVars, aggVars, setVars, dnsVars, now, outVars, renders>>

\* the call returns the set into domains
Returns(name, result) ==
    /\ called = ""
    /\ called' = name
    /\ domains' = result

CallYaml ==
    /\ Returns("extract_domains_from_yaml", extract_domains_from_yaml(content))
    /\ UNCHANGED <<file_url, restOfExtract>>

CallDnsmasq ==
    /\ Returns("extract_domains_from_dnsmasq", extract_domains_from_dnsmasq(content))
    /\ UNCHANGED <<file_url, restOfExtract>>

CallAdblock ==
    /\ Returns("extract_domains_from_adblock", extract_domains_from_adblock(content))
    /\ UNCHANGED <<file_url, restOfExtract>>

CallGfwlist ==
    /\ Returns("extract_domains_from_gfwlist", extract_domains_from_gfwlist(content))
    /\ UNCHANGED <<file_url, restOfExtract>>

CallPlainText ==
    /\ Returns("extract_domains_from_plain_text", extract_domains_from_plain_text(content))
    /\ UNCHANGED <<file_url, restOfExtract>>

CallFromFile ==
    \E url \in FileUrls :
        /\ Returns("extract_domains_from_file", extract_domains_from_file(content, url))
        /\ file_url' = url
        /\ UNCHANGED restOfExtract

\* read_custom_domains on an existing file holding the text
CallReadCustom ==
    /\ Returns("read_custom_domains", read_custom_domains(content))
    /\ UNCHANGED <<file_url, restOfExtract>>

\* the strings is_valid_domain is called on: the rules of lines 62-67, labels
\* with hyphens at their start, inside and at their end, characters outside
\* the classes, a final line feed, and strings of 253 and 254 characters
Candidates ==
    {"", "a.com", "A1.b-2.C3", "x-y.a--b.org", "1.2", "a", "com.", ".com", "a..com",
     "-a.com", "a-.com", "a.-b.com", "a.com-", "a_b.com", "a b.com", "a.com\n",
     "a.com\n\n", "a.com/",
     "abcdefghij.abcdefghij.abcdefghij.abcdefghij.abcdefghij.abcdefghij.abcdefghij.abcdefghij.abcdefghij.abcdefghij.abcdefghij.abcdefghij.abcdefghij.abcdefghij.abcdefghij.abcdefghij.abcdefghij.abcdefghij.abcdefghij.abcdefghij.abcdefghij.abcdefghij.abcdefghijk",
     "abcdefghij.abcdefghij.abcdefghij.abcdefghij.abcdefghij.abcdefghij.abcdefghij.abcdefghij.abcdefghij.abcdefghij.abcdefghij.abcdefghij.abcdefghij.abcdefghij.abcdefghij.abcdefghij.abcdefghij.abcdefghij.abcdefghij.abcdefghij.abcdefghij.abcdefghij.abcdefghijkl"}

\* is_valid_domain on a candidate; the result is kept as the set that holds
\* the string when it is accepted
CallIsValid ==
    \E s \in Candidates :
        /\ Returns("is_valid_domain", AddIfValid(s))
        /\ content' = s
        /\ UNCHANGED <<pc, file_url, mainVars, sourceVars, aggVars, setVars, dnsVars, now,
                       outVars, renders>>

NextExtract ==
    \/ CallIsValid
    \/ CallYaml
    \/ CallDnsmasq
    \/ CallAdblock
    \/ CallGfwlist
    \/ CallPlainText
    \/ CallFromFile
    \/ CallReadCustom

SpecExtract == InitExtract /\ [][NextExtract]_vars

---------------------------------------------------------------------------
(* SpecRender: calls of the two renderers on fixed inputs while the clock   *)
(* runs.                                                                    *)

RenderDomains == {"b.com", "a-c.org", "a.com"}

DnsLists == {default_cn_dns, default_foreign_dns, <<"10.0.0.1">>}

MaxNow == 2
MaxRenders == 2

InitRender ==
    /\ pc = "render"
    /\ cn_domains \in SUBSET RenderDomains
    /\ foreign_domains \in SUBSET RenderDomains
    /\ cn_dns \in DnsLists
    /\ foreign_dns \in DnsLists \ {cn_dns}
    /\ now = 0
    /\ renders = <<>>
    /\ pipelineIdle /\ config_file = NoConfig /\ config = NoConfig /\ extractIdle

\* time passes between two calls
Tick ==
    /\ now < MaxNow
    /\ now' = now + 1
    /\ UNCHANGED <<pc, extractVars, mainVars, sourceVars, aggVars, setVars, dnsVars,
                   outVars, renders>>

RenderWhitelist ==
    /\ Len(renders) < MaxRenders
    /\ renders' = Append(renders,
           [mode |-> "whitelist",
            text |-> generate_whitelist_config(cn_domains, foreign_domains, cn_dns,
                                               foreign_dns, now)])
    /\ UNCHANGED <<pc, extractVars, mainVars, sourceVars, aggVars, setVars, dnsVars,
                   outVars, now>>

RenderBlacklist ==
    /\ Len(renders) < MaxRenders
    /\ renders' = Append(renders,
           [mode |-> "blacklist",
            text |-> generate_blacklist_config(cn_domains, foreign_domains, cn_dns,
                                               foreign_dns, now)])
    /\ UNCHANGED <<pc, extractVars, mainVars, sourceVars, aggVars, setVars, dnsVars,
                   outVars, now>>

NextRender == Tick \/ RenderWhitelist \/ RenderBlacklist

SpecRender == InitRender /\ [][NextRender]_vars

---------------------------------------------------------------------------
(* Properties of the aggregation (Spec).                                    *)

\* C1, as stated: once the deduplication step has run, no domain is both in
\* the domestic set and in the foreign set that are handed to the renderers
\* and written to dist/.
DisjointAfterDedup ==
    pc \in {"whitelist", "blacklist", "save", "done"} =>
        cn_domains \cap foreign_domains = {}

\* C2: every domain an extractor, the dispatcher, the custom-domain reader or
\* the aggregator places in a result set passes is_valid_domain: in every
\* state of a run the dispatcher's result, the accumulator and both category
\* sets hold valid domains only.
AllValid ==
    \A d \in domains \cup all_domains \cup cn_domains \cup foreign_domains :
        is_valid_domain(d)

\* C2, its case: sources and a custom file that hold candidates the validator
\* rejects ("-bad.org", "g..cn", "-x.com", "-bad-") next to ones it accepts
\* have been read into the domestic set.
AllValidWitness ==
    /\ pc = "done"
    /\ cn_sources = <<ConfUrl, MiscUrl>>
    /\ fetched[ConfUrl] = "ok" /\ fetched[MiscUrl] = "ok"
    /\ custom_cn.exists
    /\ {"c.org", "f.cn", "ads.e.com", "x.cn"} \subseteq cn_domains
    /\ cn_domains \cap {"-bad.org", "g..cn", "-x.com", "-bad-"} = {}

\* C6: a source whose retrieval fails contributes nothing and leaves the
\* sources around it alone: after any number of sources the accumulator is
\* the union of what the retrieved ones among them yield, and each category's
\* set is that union over all its sources together with its custom file.
FailureIsolated ==
    LET Contribution(url) == IF fetched[url] = "ok" THEN Extracted[url] ELSE {}
        Gathered(srcs, n) == UNION {Contribution(srcs[i]) : i \in 1..n}
        Custom(c) == IF c.exists THEN CustomDomains[c] ELSE {}
    IN /\ pc = "cn_sources" => all_domains = Gathered(cn_sources, idx - 1)
       /\ pc = "foreign_sources" => all_domains = Gathered(foreign_sources, idx - 1)
       /\ pc # "cn_sources" =>
             cn_domains = Gathered(cn_sources, Len(cn_sources)) \cup Custom(custom_cn)
       /\ pc \notin {"cn_sources", "foreign_sources"} =>
             foreign_domains =
                 Gathered(foreign_sources, Len(foreign_sources)) \cup Custom(custom_foreign)

\* C6, its case: the first domestic source failed, the second was retrieved
\* after it, and the run went on to the end with the second source's domains
\* and without those only the failed source serves.
FailureIsolatedWitness ==
    /\ pc = "done"
    /\ Len(cn_sources) = 2
    /\ fetched[cn_sources[1]] = "fail"
    /\ fetched[cn_sources[2]] = "ok"
    /\ Extracted[cn_sources[2]] # {}
    /\ Extracted[cn_sources[2]] \subseteq cn_domains
    /\ ~(Extracted[cn_sources[1]] \subseteq cn_domains)

\* C7: the aggregate does not depend on the order of the sources: two
\* categories given the same sources in any two orders and the same custom
\* file end with the same set.
OrderIndependent ==
    (/\ pc \notin {"cn_sources", "foreign_sources"}
     /\ custom_cn = custom_foreign
     /\ Len(cn_sources) = Len(foreign_sources)
     /\ {cn_sources[i] : i \in 1..Len(cn_sources)}
            = {foreign_sources[i] : i \in 1..Len(foreign_sources)})
    => cn_domains = foreign_domains

\* C7, its case: two sources yielding different sets, both retrieved, taken
\* in the two orders.
OrderIndependentWitness ==
    /\ pc = "done"
    /\ cn_sources = <<YamlUrl, GfwUrl>>
    /\ foreign_sources = <<GfwUrl, YamlUrl>>
    /\ custom_cn = custom_foreign
    /\ fetched[YamlUrl] = "ok" /\ fetched[GfwUrl] = "ok"
    /\ Extracted[YamlUrl] # Extracted[GfwUrl]
    /\ cn_domains = foreign_domains
    /\ cn_domains = Extracted[YamlUrl] \cup Extracted[GfwUrl]
                        \cup (IF custom_cn.exists THEN CustomDomains[custom_cn] ELSE {})

---------------------------------------------------------------------------
(* Properties of the dispatcher (SpecExtract).                              *)

\* the dispatcher was called on a source none of the suffix rules applies to
GenericCall ==
    LET name == ToLower(LastSegment(file_url)) IN
    /\ called = "extract_domains_from_file"
    /\ ~EndsWith(name, ".yaml") /\ ~EndsWith(name, ".yml") /\ ~EndsWith(name, ".conf")
    /\ name # "gfwlist.txt"
    /\ ~Contains(name, ".list")

\* C3, as stated: the set the fallback chain returns contains what each of
\* the five extractors returns for the same text.
UnionMonotoneFive ==
    GenericCall =>
        /\ extract_domains_from_yaml(content) \subseteq domains
        /\ extract_domains_from_dnsmasq(content) \subseteq domains
        /\ extract_domains_from_adblock(content) \subseteq domains
        /\ extract_domains_from_gfwlist(content) \subseteq domains
        /\ extract_domains_from_plain_text(content) \subseteq domains

\* C3, amended: the set the fallback chain returns contains what the YAML,
\* dnsmasq, Adblock and GFWList extractors each return for the same text, and
\* what the plain-text extractor returns when those four return nothing.
UnionMonotoneFour ==
    GenericCall =>
        /\ extract_domains_from_yaml(content) \subseteq domains
        /\ extract_domains_from_dnsmasq(content) \subseteq domains
        /\ extract_domains_from_adblock(content) \subseteq domains
        /\ extract_domains_from_gfwlist(content) \subseteq domains
        /\ (extract_domains_from_yaml(content) = {}
              /\ extract_domains_from_dnsmasq(content) = {}
              /\ extract_domains_from_adblock(content) = {}
              /\ extract_domains_from_gfwlist(content) = {})
           => extract_domains_from_plain_text(content) \subseteq domains

\* C3, its case: the Adblock extractor finds a domain, so the text is not
\* read as plain text, and the plain-text extractor alone would find another.
UnionMonotoneWitness ==
    /\ GenericCall
    /\ content = "||a.com^DOMAIN,http://d.com"
    /\ extract_domains_from_adblock(content) = {"a.com"}
    /\ domains = {"a.com"}
    /\ extract_domains_from_plain_text(content) = {"d.com"}

\* C4: the dispatcher looks at the lower-cased last segment of the source
\* identifier: ending .yaml or .yml gives the YAML extractor's result; else
\* ending .conf the dnsmasq extractor's; else being gfwlist.txt the GFWList
\* extractor's; else containing .list the YAML extractor's result when that is
\* not empty and the plain-text extractor's otherwise.
DispatchBySuffix ==
    LET name == ToLower(LastSegment(file_url)) IN
    called = "extract_domains_from_file" =>
        IF EndsWith(name, ".yaml") \/ EndsWith(name, ".yml")
        THEN domains = extract_domains_from_yaml(content)
        ELSE IF EndsWith(name, ".conf")
        THEN domains = extract_domains_from_dnsmasq(content)
        ELSE IF name = "gfwlist.txt"
        THEN domains = extract_domains_from_gfwlist(content)
        ELSE IF Contains(name, ".list")
        THEN IF extract_domains_from_yaml(content) # {}
             THEN domains = extract_domains_from_yaml(content)
             ELSE domains = extract_domains_from_plain_text(content)
        ELSE TRUE

\* C4, its case: "A.LIST.CONF" ends with .conf and contains .list; the result
\* is the dnsmasq extractor's and not what the .list rule would give.
DispatchBySuffixWitness ==
    /\ called = "extract_domains_from_file"
    /\ file_url = "A.LIST.CONF"
    /\ domains = extract_domains_from_dnsmasq(content)
    /\ domains # {}
    /\ extract_domains_from_yaml(content) # {}
    /\ domains # extract_domains_from_yaml(content)

\* C5: for a source none of the suffix rules applies to, the dispatcher
\* returns the union of the results of the YAML, dnsmasq, Adblock and GFWList
\* extractors, each run whatever the others returned; when the union is empty
\* it returns the plain-text extractor's result.
FallbackUnion ==
    LET found == extract_domains_from_yaml(content)
                     \cup extract_domains_from_dnsmasq(content)
                     \cup extract_domains_from_adblock(content)
                     \cup extract_domains_from_gfwlist(content)
    IN GenericCall =>
           domains = IF found = {} THEN extract_domains_from_plain_text(content) ELSE found

\* C5, its case: two of the extractors find different domains and the result
\* holds both.
FallbackUnionWitness ==
    /\ GenericCall
    /\ extract_domains_from_dnsmasq(content) # {}
    /\ extract_domains_from_adblock(content) # {}
    /\ extract_domains_from_dnsmasq(content) \cap extract_domains_from_adblock(content) = {}
    /\ domains = extract_domains_from_dnsmasq(content) \cup extract_domains_from_adblock(content)

---------------------------------------------------------------------------
(* Properties of the renderers (SpecRender) and of main (SpecMain).         *)

\* C9: a whitelist document lists the foreign DNS servers as default upstream
\* and then holds one directive "[/<domain>/]<domestic DNS servers joined by
\* spaces>" for each domestic domain and no other directive; a blacklist
\* document lists the domestic DNS servers and holds one directive with the
\* foreign DNS servers for each foreign domain.  The directives are in
\* ascending order of the domains, the servers in the order of their list, and
\* an empty set gives no directive line.
RendererContent ==
    LET \* text.split("\n"), from the set of the positions of "\n"
        Break(text, breaks, k) ==
            IF k = 0 THEN 0
            ELSE IF k = Cardinality(breaks) + 1 THEN Len(text) + 1
            ELSE CHOOSE i \in breaks : Cardinality({j \in breaks : j < i}) = k - 1
        Split(text, breaks) ==
            [k \in 1..(Cardinality(breaks) + 1) |->
                Slice(text, Break(text, breaks, k - 1) + 1, Break(text, breaks, k) - 1)]
        Lines(text) == Split(text, {i \in 1..Len(text) : At(text, i) = "\n"})
        DomainOf(line) == Slice(line, 3, Find(line, "/]") - 1)
        Document(ls, upstream, domain_set, dns) ==
            LET first == 8 + Len(upstream) IN
            /\ Len(ls) = 7 + Len(upstream) + Cardinality(domain_set)
            /\ \A k \in 1..Len(upstream) : ls[5 + k] = upstream[k]
            /\ \A k \in 1..(first - 1) : ~StartsWith(ls[k], "[/")
            /\ \A k \in first..Len(ls) :
                   ls[k] = "[/" \o DomainOf(ls[k]) \o "/]" \o Join(dns, " ")
            /\ {DomainOf(ls[k]) : k \in first..Len(ls)} = domain_set
            /\ \A k \in first..(Len(ls) - 1) : StrLess(DomainOf(ls[k]), DomainOf(ls[k + 1]))
    IN \A r \in 1..Len(renders) :
           IF renders[r].mode = "whitelist"
           THEN Document(Lines(renders[r].text), foreign_dns, cn_domains, cn_dns)
           ELSE Document(Lines(renders[r].text), cn_dns, foreign_domains, foreign_dns)

\* C9, its case: a whitelist document for two domestic domains and a foreign
\* one, with two domestic DNS servers.
RendererContentWitness ==
    /\ Len(renders) >= 1
    /\ renders[1].mode = "whitelist"
    /\ cn_domains = {"a.com", "a-c.org"}
    /\ foreign_domains = {"b.com"}
    /\ cn_dns = default_cn_dns
    /\ foreign_dns = <<"10.0.0.1">>
    /\ Contains(renders[1].text,
                "\n10.0.0.1\n")
    /\ EndsWith(renders[1].text,
                "\n[/a-c.org/]https://doh.pub/dns-query https://dns.alidns.com/dns-query"
                    \o "\n[/a.com/]https://doh.pub/dns-query https://dns.alidns.com/dns-query")
    /\ ~Contains(renders[1].text, "b.com")

\* C10, as stated: two documents rendered in the same mode from the same sets
\* and DNS lists are the same text, whatever the time of the two calls.
RendererPure ==
    \A i, j \in 1..Len(renders) :
        renders[i].mode = renders[j].mode => renders[i].text = renders[j].text

\* C8, as stated: no run of main ends in an unhandled error.
MainNeverAborts == pc # "aborted"

---------------------------------------------------------------------------
(* Properties of the deduplication step of main (Spec).                     *)

\* C12: the step between aggregation and rendering leaves the domestic set
\* as it was aggregated (a domain of both categories stays domestic) and adds
\* nothing to the foreign set.
ReconcileFrame ==
    [][pc = "dedup" =>
          /\ cn_domains' = cn_domains
          /\ foreign_domains' \subseteq foreign_domains]_vars

\* C12, its case: the step has run on two sets that share a domain, and the
\* domain is still domestic.
ReconcileFrameWitness ==
    /\ pc = "whitelist"
    /\ "b.com" \in cn_domains \cap foreign_domains
    /\ cn_domains # foreign_domains
    /\ cn_domains = Extracted[YamlUrl]
    /\ foreign_domains = Extracted[GfwUrl]

---------------------------------------------------------------------------
(* Properties of the validator and of the extractors (SpecExtract).         *)

\* the Domain invariant: not empty, at most 253 characters, no "." at either
\* end, no "..", and the shape label(.label)+ where a label is made of letters
\* and digits with hyphens only inside it
DomainInvariant(s) ==
    /\ s # ""
    /\ Len(s) <= 253
    /\ At(s, 1) # "." /\ At(s, Len(s)) # "."
    /\ \A i \in 1..(Len(s) - 1) : ~(At(s, i) = "." /\ At(s, i + 1) = ".")
    /\ \E i \in 1..Len(s) : At(s, i) = "."
    /\ \A i \in 1..Len(s) : At(s, i) \in AlnumSet \cup {"-", "."}
    /\ \A i \in 1..Len(s) :
           At(s, i) = "-" => /\ i > 1 /\ i < Len(s)
                             /\ At(s, i - 1) # "." /\ At(s, i + 1) # "."

\* C11, as stated: is_valid_domain accepts a string exactly when the string
\* satisfies the Domain invariant.
ValidatorExact ==
    called = "is_valid_domain" => (domains = {content} <=> DomainInvariant(content))

\* C13: the YAML extractor returns what its line pass finds together with
\* what its structured pass finds in the loaded value; when yaml.safe_load
\* raises, it returns what the line pass found.
YamlUnion ==
    called = "extract_domains_from_yaml" =>
        /\ domains = YamlLinePass(content) \cup StructuredDomains(safe_load(content))
        /\ safe_load(content).kind = "error" => domains = YamlLinePass(content)

\* C13, its case: the text does not load ("||ads.e.com^" opens a block scalar
\* with a second indicator) and a later line holds a rule, which the line
\* pass finds.
YamlUnionWitness ==
    /\ called = "extract_domains_from_yaml"
    /\ content = "||ads.e.com^\n  - DOMAIN-SUFFIX,a.com"
    /\ safe_load(content).kind = "error"
    /\ YamlLinePass(content) = {"a.com"}
    /\ domains = {"a.com"}

\* C14, as stated: when the text is not Base64, the GFWList extractor returns
\* what the Adblock extractor finds in the text as it is.
GfwlistFallbackAdblock ==
    (called = "extract_domains_from_gfwlist" /\ b64decode(content) = B64Error) =>
        domains = extract_domains_from_adblock(content)

\* the upper-cased text holds one of the four keywords with its separator
HasKeyword(x) ==
    \E kw \in {"DOMAIN,", "DOMAIN:", "DOMAIN-SUFFIX,", "DOMAIN-SUFFIX:"} :
        Contains(ToUpper(x), kw)

\* the text after the first "," or ":" of x, trimmed
KeywordTail(x) ==
    LET seps == {i \in 1..Len(x) : At(x, i) \in {",", ":"}}
        first == CHOOSE i \in seps : \A j \in seps : i <= j
    IN Strip(From(x, first + 1))

\* the stripped lines of a text and, for the lines "- item", the items
LinesAndItems(text) ==
    LineSet(text) \cup {From(l, 3) : l \in {x \in LineSet(text) : StartsWith(x, "- ")}}

\* C15: every domain the YAML extractor returns comes from a line or list
\* item that either holds no keyword, or holds one and has the domain as the
\* whole trimmed text after its first "," or ":"; a line or item with a
\* keyword and another text there yields none by the later rules.
KeywordExclusive ==
    called = "extract_domains_from_yaml" =>
        \A d \in domains :
            \E x \in LinesAndItems(content) :
                IF HasKeyword(x) THEN d = KeywordTail(x) /\ is_valid_domain(d)
                ELSE d \in RuleDomains(x)

\* C15, its case: a list of two rules; the text after the separator of the
\* first is a domain, that of the second ("e.com,Proxy") is not, and neither
\* the suffix pattern nor another rule takes e.com from it.
KeywordExclusiveWitness ==
    /\ called = "extract_domains_from_yaml"
    /\ content = "  - DOMAIN-SUFFIX,a.com\n  - DOMAIN-SUFFIX,e.com,Proxy"
    /\ safe_load(content).kind = "list"
    /\ CLASH_DOMAIN_SUFFIX_PATTERN("DOMAIN-SUFFIX,e.com,Proxy") = "e.com"
    /\ domains = {"a.com"}

===========================================================================
